---- MODULE Spec2Model ----
(***************************************************************************)
(* The analysis orchestrator of src/src/hooks/useAnalysis.ts (the          *)
(* useAnalysis hook): the single-flight guard, the cooldown guard backed   *)
(* by localStorage, photo compression, payload sizing, the request to the  *)
(* generative endpoint and the classification of its outcome.              *)
(*                                                                         *)
(* One step of the model is one synchronous run of JavaScript: a call of   *)
(* analyze(), retry() or clearError() up to its first await, an image      *)
(* onload/onerror handler followed by the promise continuation it wakes,   *)
(* the settlement of fetch(), the settlement of the body read, a React     *)
(* re-render, or the passing of time.                                      *)
(***************************************************************************)
EXTENDS Integers, Sequences, FiniteSets

\* ---------------------------------------------------------------- constants
MAX_PAYLOAD_SIZE == 1572864
MAX_RETRIES == 3
MIN_COOLDOWN_MS == 20000
RATE_LIMIT_WAIT_429 == 60

\* ------------------------------------------------------------------- bounds
MaxExecs == 2
MaxElapsedMs == 40000

StartTime == 5 * MIN_COOLDOWN_MS
TickSteps == {10000}
Slots == {"front", "left", "right"}
SlotOrder == <<"front", "left", "right">>
PhotoInputs == {{}, {"front"}, {"left", "right"}, {"front", "left", "right"}}
Questionnaires == {"NA", "25-34"}
Base64Lens == {699050, 1400000}
Statuses == {200, 413, 429, 500, 503}
OkBodies == {"valid", "no_text", "truncated", "unparsable", "unreadable"}
ErrBodies == {"text", "unreadable"}
ExecIds == 1 .. MaxExecs

VARIABLES
    now,                \* Date.now(), in milliseconds
    item,               \* localStorage[COOLDOWN_KEY]: null, or a string (a sequence of characters)
    getItemThrows,      \* localStorage.getItem throws on this device
    setItemThrows,      \* localStorage.setItem throws on this device
    apiKey,             \* import.meta.env.VITE_GEMINI_API_KEY is set
    isAnalyzing,        \* React state
    error,              \* React state
    errorType,          \* React state
    usedFallback,       \* React state
    usedSinglePhoto,    \* React state
    rateLimitWait,      \* React state
    inFlightRef,        \* inFlightRef.current
    lastRequestRef,     \* lastRequestRef.current
    closureIsAnalyzing, \* the isAnalyzing value captured by the analyze callback of the last render
    execs,              \* the executions of analyze() that are suspended at an await
    acceptedAt,         \* history: Date.now() at the start of the last accepted call, -1 before the first
    callArgs,           \* history: the pair the step just taken passed to analyze(), null if it called none
    last,               \* history: what the step just taken was and what it returned
    scanning,           \* one ScanningScreen: its state, its timers and the calls it has made
    rateLimitMap,       \* the edge function's rateLimitMap: identifier -> record, or no record
    serverNow,          \* Date.now() in the edge function, in milliseconds
    served              \* history: the request the edge function served last and its answer

hookState == <<isAnalyzing, error, errorType, usedFallback, usedSinglePhoto, rateLimitWait>>
device == <<getItemThrows, setItemThrows, apiKey>>
vars == <<now, item, getItemThrows, setItemThrows, apiKey, isAnalyzing, error, errorType,
          usedFallback, usedSinglePhoto, rateLimitWait, inFlightRef, lastRequestRef,
          closureIsAnalyzing, execs, acceptedAt, callArgs, last,
          scanning, rateLimitMap, serverNow, served>>
\* what lies outside the hook: the screen that uses it and the edge function
outsideHook == <<scanning, rateLimitMap, serverNow, served>>

\* ------------------------------------------------------------ pure helpers
\* Math.ceil(a / b) for a >= 0, b > 0
CeilDiv(a, b) == (a + b - 1) \div b

Digits == 0 .. 9

\* a character that is not a digit
NonDigit == 10

\* values of localStorage.getItem: null, or a string
NullItem == [isNull |-> TRUE, str |-> <<>>]
StrItem(s) == [isNull |-> FALSE, str |-> s]

\* JavaScript numbers as far as the cooldown arithmetic needs them: NaN or an integer
NaN == [nan |-> TRUE, v |-> 0]
Num(n) == [nan |-> FALSE, v |-> n]

\* String(timestamp) for a non-negative integer: its decimal digits
RECURSIVE String(_)
String(n) == IF n < 10 THEN <<n>> ELSE Append(String(n \div 10), n % 10)

\* the value of the longest prefix of s made of digits, as parseInt reads it
RECURSIVE DigitsValue(_, _)
DigitsValue(s, acc) ==
    IF s = <<>> THEN acc
    ELSE IF Head(s) \notin Digits THEN acc
    ELSE DigitsValue(Tail(s), 10 * acc + Head(s))

\* parseInt(val, 10): NaN when val does not start with a digit
parseInt(s) ==
    IF s = <<>> THEN NaN
    ELSE IF Head(s) \notin Digits THEN NaN
    ELSE Num(DigitsValue(s, 0))

\* variant: a store that cannot be read counts as stamped just now
getLastAnalyzeAtFailsClosed ==
    IF getItemThrows THEN Num(now)
    ELSE IF item.isNull \/ item.str = <<>> THEN Num(0)
    ELSE parseInt(item.str)

\* getLastAnalyzeAt(): 0 when getItem throws or the item is null or empty
getLastAnalyzeAt ==
    IF getItemThrows THEN Num(0)
    ELSE IF item.isNull \/ item.str = <<>> THEN Num(0)
    ELSE parseInt(item.str)

\* variant: the timestamp is not written when the call is accepted
setLastAnalyzeAtSkipped(timestamp) == item

\* localStorage[COOLDOWN_KEY] after setLastAnalyzeAt(timestamp)
setLastAnalyzeAt(timestamp) == IF setItemThrows THEN item ELSE StrItem(String(timestamp))

\* const elapsed = Date.now() - lastAt
Elapsed == IF getLastAnalyzeAt.nan THEN NaN ELSE Num(now - getLastAnalyzeAt.v)

\* variant: the guard enforces half the interval
CooldownActiveHalf == IF Elapsed.nan THEN FALSE ELSE Elapsed.v < MIN_COOLDOWN_MS \div 2
\* elapsed < MIN_COOLDOWN_MS (false for NaN)
CooldownActive == IF Elapsed.nan THEN FALSE ELSE Elapsed.v < MIN_COOLDOWN_MS

\* Math.ceil((MIN_COOLDOWN_MS - elapsed) / 1000), evaluated only when CooldownActive
WaitSec == CeilDiv(MIN_COOLDOWN_MS - Elapsed.v, 1000)

\* getDataUrlSize: Math.ceil(base64.length * 3 / 4)
getDataUrlSize(base64Len) == CeilDiv(base64Len * 3, 4)

\* [photos.front, photos.left, photos.right].filter(Boolean), as slot names
RECURSIVE FilterPresent(_, _)
FilterPresent(order, photos) ==
    IF order = <<>> THEN <<>>
    ELSE IF Head(order) \in photos THEN <<Head(order)>> \o FilterPresent(Tail(order), photos)
    ELSE FilterPresent(Tail(order), photos)
photoArray(photos) == FilterPresent(SlotOrder, photos)

RECURSIVE SumSizes(_, _)
SumSizes(arr, len) ==
    IF arr = <<>> THEN 0 ELSE getDataUrlSize(len[Head(arr)]) + SumSizes(Tail(arr), len)

\* lastRequestRef.current: null, or the pair of the last accepted call
NullRequest == [isNull |-> TRUE, photos |-> {}, questionnaire |-> "NA"]
Request(photos, questionnaire) == [isNull |-> FALSE, photos |-> photos, questionnaire |-> questionnaire]

\* the pairs analyze() is called with: every photo input, and one of them with
\* either questionnaire
AnalyzeInputs ==
    {input \in {Request(photos, questionnaire) : photos \in PhotoInputs, questionnaire \in Questionnaires} :
        input.questionnaire = "NA" \/ input.photos = {"left", "right"}}

NullError == [msg |-> "null", sec |-> 0]
Err(m) == [msg |-> m, sec |-> 0]

FreeExec == [pc |-> "free", startedAt |-> 0, photos |-> {},
             comp |-> [s \in Slots |-> "absent"], len |-> [s \in Slots |-> 0],
             totalSize |-> 0,
             photosToSend |-> <<>>, requestPhotos |-> <<>>, requests |-> 0, status |-> 0]

InFlight(e) == execs[e].pc # "free"
InFlightIds == {e \in ExecIds : InFlight(e)}

\* ------------------------------------------------------------ the results
\* Math.random() is RandomNum / RandomScale, a value of [0, 1)
RandomScale == 1000
Randoms == 0 .. (RandomScale - 1)
\* the draws the hook's outer catch is explored with
RandomDraws == {0, RandomScale \div 2, RandomScale - 1}
NoRandom == -1

NOT_REAL_MARKER == "This is not a real analysis."
FALLBACK_DISCLAIMER ==
    <<"FALLBACK DEMO RESULT: AI analysis was unavailable.", NOT_REAL_MARKER,
      "Please consult a dermatologist for any hair loss concerns.">>
REAL_DISCLAIMER ==
    <<"Educational only - not medical advice or a diagnosis.",
      "Photo-based observations are limited.",
      "Consult a board-certified dermatologist for concerns.">>

\* an AnalysisResult: score in tenths, confidence in hundredths (both JS numbers),
\* the lists by their lengths, the disclaimer by its sentences
AnalysisResult(score, confidence, observations, patterns, options, whenToSee, disclaimer) ==
    [isNull |-> FALSE, score |-> score, confidence |-> confidence,
     observations |-> observations, likely_patterns |-> patterns,
     general_options |-> options, when_to_see_a_dermatologist |-> whenToSee,
     disclaimer |-> disclaimer]
NullResult == [AnalysisResult(Num(0), Num(0), 0, 0, 0, 0, <<>>) EXCEPT !.isNull = TRUE]

\* a field of the parsed JSON: absent (null or undefined), or a value that Number()
\* converts to n (NaN for a value that is not numeric)
Absent == [present |-> FALSE, n |-> Num(0)]
Present(n) == [present |-> TRUE, n |-> n]
\* Number(field ?? default)
NumberOr(field, default) == IF field.present THEN field.n ELSE Num(default)
\* Math.max(lo, Math.min(hi, x)): NaN stays NaN
Clamp(lo, hi, x) ==
    IF x.nan THEN NaN
    ELSE Num(IF x.v > hi THEN (IF hi < lo THEN lo ELSE hi) ELSE IF x.v < lo THEN lo ELSE x.v)

\* the JSON objects the model answers with: score, confidence and the length of tags
\* (0 when tags is not an array)
ParsedBodies ==
    {[score |-> Absent, confidence |-> Absent, tags |-> 0],
     [score |-> Present(Num(74)), confidence |-> Present(Num(85)), tags |-> 2],
     [score |-> Present(Num(120)), confidence |-> Present(Num(-5)), tags |-> 5],
     [score |-> Present(NaN), confidence |-> Present(NaN), tags |-> 0]}

\* the result built from the parsed JSON
ParsedResult(parsed) ==
    LET tags == IF parsed.tags > 3 THEN 3 ELSE parsed.tags
        observations == IF tags + 1 > 4 THEN 4 ELSE tags + 1
    IN AnalysisResult(Clamp(0, 100, NumberOr(parsed.score, 50)),
                      Clamp(0, 100, NumberOr(parsed.confidence, 50)),
                      observations, IF tags > 0 THEN tags ELSE 2, 3, 3, REAL_DISCLAIMER)

\* Math.round(x * 10) for x = 2 + (r / RandomScale) * 5: floor(20 + 50 r / RandomScale + 1/2)
RoundedTenths(r) == (2 * (20 * RandomScale + 50 * r) + RandomScale) \div (2 * RandomScale)

\* variant: the demo score is drawn from 2 + Math.random() * 9
generateFallbackResultWide(r) ==
    AnalysisResult(Num((2 * (20 * RandomScale + 90 * r) + RandomScale) \div (2 * RandomScale)),
                   Num(0), 2, 1, 1, 2, FALLBACK_DISCLAIMER)

\* generateFallbackResult(), r the numerator of its Math.random()
generateFallbackResult(r) ==
    AnalysisResult(Num(RoundedTenths(r)), Num(0), 2, 1, 1, 2, FALLBACK_DISCLAIMER)

\* the history record of a step
Step(op, rejected, accepted, resolved, ret, reqs, status, body) ==
    [op |-> op, rejected |-> rejected, accepted |-> accepted, resolved |-> resolved,
     ret |-> ret, reqs |-> reqs, status |-> status, body |-> body,
     result |-> NullResult, random |-> NoRandom]

\* ------------------------------------------------------- the scanning screen
\* the progress effect's constants; progress is kept in eighths of a percent, the
\* unit in which increment = 100 / (totalDuration / interval) = 0.625 is exact
totalDuration == 8000
interval == 50
MAX_WAIT_AT_95 == 15000
COMPLETE_DELAY == 300
ProgressUnit == 8
increment == (100 * ProgressUnit) \div (totalDuration \div interval)
\* how many times the start effect re-runs after the mount
MaxEffectRuns == 2

\* the photos prop: undefined, or an object with the slots that hold a photo
PhotoProps ==
    {[defined |-> FALSE, slots |-> {}], [defined |-> TRUE, slots |-> {}],
     [defined |-> TRUE, slots |-> {"front"}]}
\* photos ? [photos.front, photos.left, photos.right].filter(Boolean) : []
capturedPhotos(photos) == IF photos.defined THEN FilterPresent(SlotOrder, photos.slots) ELSE <<>>
\* the results analyze() resolves with on the screen: a real one and a demo one
ScreenResults ==
    {ParsedResult([score |-> Present(Num(74)), confidence |-> Present(Num(85)), tags |-> 2]),
     generateFallbackResult(RandomScale \div 2)}

\* a score num / den (NaN when the result's score is NaN)
Score(num, den) == [nan |-> FALSE, num |-> num, den |-> den]
\* result.score, a number of tenths
ScoreOfResult(result) ==
    IF result.score.nan THEN [nan |-> TRUE, num |-> 0, den |-> 1] ELSE Score(result.score.v, 10)
\* 2 + Math.random() * span, r the numerator of the draw
DrawnScore(r, span) == Score(2 * RandomScale + r * span, RandomScale)

\* a cleared (or never created) interval
NoTimer == -1
\* the arguments of an onComplete call; none before the first call
NoCompletion == [called |-> FALSE, score |-> Score(0, 1), drawn |-> FALSE, result |-> NullResult]
Completion(score, drawn, result) ==
    [called |-> TRUE, score |-> score, drawn |-> drawn, result |-> result]

\* the screen as rendered for the first time, before its effects have run
FreshScreen ==
    [screen |-> "scanning", riskScore |-> Score(0, 1), shownResult |-> NullResult,
     effectsRun |-> FALSE, photos |-> [defined |-> FALSE, slots |-> {}],
     hasStartedRef |-> FALSE, promise |-> "none",
     analysisComplete |-> FALSE, analysisResult |-> NullResult,
     progress |-> 0, timeAtNinetyFive |-> 0, progressTimer |-> NoTimer, timeouts |-> <<>>,
     effectRuns |-> 0, analyzeCalls |-> 0, onCompleteCalls |-> 0, completion |-> NoCompletion,
     op |-> "render"]

\* ------------------------------------------------- the edge function's limiter
RATE_LIMIT_MAX == 10
RATE_LIMIT_WINDOW == 60000
\* the client identifiers the edge function sees
Identifiers == {"10.0.0.1", "unknown"}
\* rateLimitMap.get(identifier) is undefined
NoRecord == [present |-> FALSE, count |-> 0, resetTime |-> 0]
Record(count, resetTime) == [present |-> TRUE, count |-> count, resetTime |-> resetTime]
\* how far the edge function's clock runs, and the steps it advances by
MaxServerMs == 150000
ServerSteps == {RATE_LIMIT_WINDOW \div 2}
\* the requests: the method, the first element of x-forwarded-for and cf-connecting-ip,
\* "null" for a header that is not sent
Requests ==
    [method : {"OPTIONS", "POST"}, forwardedFor : {"null", "", "10.0.0.1"},
     connectingIp : {"null", "10.0.0.1"}]
\* no request served yet; admits and windowStart are history: per identifier, when the
\* first request of the current 60 s span was let through and how many were since
NoRequest ==
    [identifier |-> "none", method |-> "none", limited |-> FALSE, at |-> 0,
     windowStart |-> [id \in Identifiers |-> -1], admits |-> [id \in Identifiers |-> 0]]

\* ---------------------------------------------------------------- initial
Init ==
    /\ now = StartTime
    /\ item \in {NullItem, StrItem(<<NonDigit>>), StrItem(String(StartTime - 1500))}
    /\ getItemThrows \in BOOLEAN
    /\ setItemThrows \in BOOLEAN
    /\ getItemThrows => (setItemThrows /\ item = NullItem)
    /\ apiKey \in BOOLEAN
    /\ isAnalyzing = FALSE
    /\ error = NullError
    /\ errorType = "null"
    /\ usedFallback = FALSE
    /\ usedSinglePhoto = FALSE
    /\ rateLimitWait = 0
    /\ inFlightRef = FALSE
    /\ lastRequestRef = NullRequest
    /\ closureIsAnalyzing = FALSE
    /\ execs = [e \in ExecIds |-> FreeExec]
    /\ acceptedAt = -1
    /\ callArgs = NullRequest
    /\ last = Step("init", "no", FALSE, FALSE, "none", 0, 0, "none")
    /\ scanning = FreshScreen
    /\ rateLimitMap = [id \in Identifiers |-> NoRecord]
    /\ serverNow = 0
    /\ served = NoRequest

\* ------------------------------------------------- the guards of analyze()
\* variant: the guard tests the captured state only, not the ref
SingleFlightGuardStateOnly == closureIsAnalyzing

\* if (inFlightRef.current || isAnalyzing): isAnalyzing is the value the callback captured
SingleFlightGuard == inFlightRef \/ closureIsAnalyzing

\* the lowest free execution record (a bound of the model, not of the program)
FreeId == CHOOSE e \in ExecIds : ~InFlight(e) /\ \A f \in ExecIds : ~InFlight(f) => e <= f

\* variant: the busy return reports an error to the user
RejectBusyReportsError(op, e0, t0, f0, w0) ==
    /\ SingleFlightGuard
    /\ error' = Err("Analysis already in progress") /\ errorType' = "network_error"
    /\ usedFallback' = f0 /\ rateLimitWait' = w0
    /\ UNCHANGED <<now, item, device, outsideHook, isAnalyzing, usedSinglePhoto, inFlightRef,
                   lastRequestRef, closureIsAnalyzing, execs, acceptedAt>>
    /\ last' = Step(op, "busy", FALSE, FALSE, "none", 0, 0, "none")

\* return null of the single-flight guard. e0, t0, f0, w0 are error, errorType,
\* usedFallback and rateLimitWait as the caller left them (retry() clears them first)
RejectBusy(op, e0, t0, f0, w0) ==
    /\ SingleFlightGuard
    /\ error' = e0 /\ errorType' = t0 /\ usedFallback' = f0 /\ rateLimitWait' = w0
    /\ UNCHANGED <<now, item, device, outsideHook, isAnalyzing, usedSinglePhoto, inFlightRef,
                   lastRequestRef, closureIsAnalyzing, execs, acceptedAt>>
    /\ last' = Step(op, "busy", FALSE, FALSE, "none", 0, 0, "none")

\* variant: the rejected call writes the timestamp, restarting the interval
RejectCooldownRestarts(op, e0, t0, f0, w0) ==
    /\ ~SingleFlightGuard
    /\ CooldownActive
    /\ error' = [msg |-> "cooldown", sec |-> WaitSec]
    /\ errorType' = "cooldown"
    /\ usedFallback' = f0 /\ rateLimitWait' = w0
    /\ item' = setLastAnalyzeAt(now)
    /\ UNCHANGED <<now, device, outsideHook, isAnalyzing, usedSinglePhoto, inFlightRef,
                   lastRequestRef, closureIsAnalyzing, execs, acceptedAt>>
    /\ last' = Step(op, "cooldown", FALSE, FALSE, "none", 0, 0, "none")

\* variant: the lock is taken before the cooldown test and kept by the cooldown return
RejectCooldownLocked(op, e0, t0, f0, w0) ==
    /\ ~SingleFlightGuard
    /\ CooldownActive
    /\ error' = [msg |-> "cooldown", sec |-> WaitSec]
    /\ errorType' = "cooldown"
    /\ usedFallback' = f0 /\ rateLimitWait' = w0
    /\ inFlightRef' = TRUE
    /\ UNCHANGED <<now, item, device, outsideHook, isAnalyzing, usedSinglePhoto,
                   lastRequestRef, closureIsAnalyzing, execs, acceptedAt>>
    /\ last' = Step(op, "cooldown", FALSE, FALSE, "none", 0, 0, "none")

\* the cooldown guard: setError, setErrorType('cooldown'), return null
RejectCooldown(op, e0, t0, f0, w0) ==
    /\ ~SingleFlightGuard
    /\ CooldownActive
    /\ error' = [msg |-> "cooldown", sec |-> WaitSec]
    /\ errorType' = "cooldown"
    /\ usedFallback' = f0 /\ rateLimitWait' = w0
    /\ UNCHANGED <<now, item, device, outsideHook, isAnalyzing, usedSinglePhoto, inFlightRef,
                   lastRequestRef, closureIsAnalyzing, execs, acceptedAt>>
    /\ last' = Step(op, "cooldown", FALSE, FALSE, "none", 0, 0, "none")

\* the execution record of a call that starts the compression of every present photo
StartedExec(photos) ==
    [pc |-> "compressing", startedAt |-> now, photos |-> photos,
     comp |-> [s \in Slots |-> IF s \in photos THEN "pending" ELSE "absent"],
     len |-> [s \in Slots |-> 0],
     totalSize |-> 0,
     photosToSend |-> <<>>, requestPhotos |-> <<>>, requests |-> 0, status |-> 0]

\* variant: an empty photo set goes to the fallback result like any other failure
AcceptEmptyFallsBack(op, photos, questionnaire) ==
    /\ ~SingleFlightGuard
    /\ ~CooldownActive
    /\ \E e \in ExecIds : ~InFlight(e)
    /\ usedSinglePhoto' = FALSE
    /\ rateLimitWait' = 0
    /\ lastRequestRef' = Request(photos, questionnaire)
    /\ item' = setLastAnalyzeAt(now)
    /\ acceptedAt' = now
    /\ IF photoArray(photos) = <<>>
       THEN /\ error' = Err("AI analysis unavailable - showing demo result")
            /\ errorType' = "network_error"
            /\ usedFallback' = TRUE
            /\ inFlightRef' = FALSE
            /\ isAnalyzing' = FALSE
            /\ execs' = execs
            /\ last' = Step(op, "no", TRUE, TRUE, "fallback", 0, 0, "none")
       ELSE /\ error' = NullError
            /\ errorType' = "null"
            /\ usedFallback' = FALSE
            /\ inFlightRef' = TRUE
            /\ isAnalyzing' = TRUE
            /\ execs' = [execs EXCEPT ![FreeId] = StartedExec(photos)]
            /\ last' = Step(op, "no", TRUE, FALSE, "pending", 0, 0, "none")
    /\ UNCHANGED <<now, device, outsideHook, closureIsAnalyzing>>

\* variant: acceptance clears the error but not the flags of the earlier call
AcceptKeepsFlags(op, photos, questionnaire) ==
    /\ ~SingleFlightGuard
    /\ ~CooldownActive
    /\ \E e \in ExecIds : ~InFlight(e)
    /\ UNCHANGED <<usedFallback, usedSinglePhoto, rateLimitWait>>
    /\ lastRequestRef' = Request(photos, questionnaire)
    /\ item' = setLastAnalyzeAt(now)
    /\ acceptedAt' = now
    /\ IF photoArray(photos) = <<>>
       THEN /\ error' = Err("No photos to analyze")
            /\ errorType' = "network_error"
            /\ inFlightRef' = FALSE
            /\ isAnalyzing' = FALSE
            /\ execs' = execs
            /\ last' = Step(op, "no", TRUE, TRUE, "none", 0, 0, "none")
       ELSE /\ error' = NullError
            /\ errorType' = "null"
            /\ inFlightRef' = TRUE
            /\ isAnalyzing' = TRUE
            /\ execs' = [execs EXCEPT ![FreeId] = StartedExec(photos)]
            /\ last' = Step(op, "no", TRUE, FALSE, "pending", 0, 0, "none")
    /\ UNCHANGED <<now, device, outsideHook, closureIsAnalyzing>>

\* variant: the empty photo set is turned away before the memo and the timestamp are written
AcceptEmptyUnstamped(op, photos, questionnaire) ==
    /\ ~SingleFlightGuard
    /\ ~CooldownActive
    /\ \E e \in ExecIds : ~InFlight(e)
    /\ usedFallback' = FALSE
    /\ usedSinglePhoto' = FALSE
    /\ rateLimitWait' = 0
    /\ lastRequestRef' = IF photoArray(photos) = <<>> THEN lastRequestRef
                       ELSE Request(photos, questionnaire)
    /\ item' = IF photoArray(photos) = <<>> THEN item ELSE setLastAnalyzeAt(now)
    /\ acceptedAt' = now
    /\ IF photoArray(photos) = <<>>
       THEN /\ error' = Err("No photos to analyze")
            /\ errorType' = "network_error"
            /\ inFlightRef' = FALSE
            /\ isAnalyzing' = FALSE
            /\ execs' = execs
            /\ last' = Step(op, "no", TRUE, TRUE, "none", 0, 0, "none")
       ELSE /\ error' = NullError
            /\ errorType' = "null"
            /\ inFlightRef' = TRUE
            /\ isAnalyzing' = TRUE
            /\ execs' = [execs EXCEPT ![FreeId] = StartedExec(photos)]
            /\ last' = Step(op, "no", TRUE, FALSE, "pending", 0, 0, "none")
    /\ UNCHANGED <<now, device, outsideHook, closureIsAnalyzing>>

\* both guards passed: lock, clear the flags, remember the inputs, write the
\* timestamp; then either the no-photos return or Promise.all(compressPhoto...)
Accept(op, photos, questionnaire) ==
    /\ ~SingleFlightGuard
    /\ ~CooldownActive
    /\ \E e \in ExecIds : ~InFlight(e)
    /\ usedFallback' = FALSE
    /\ usedSinglePhoto' = FALSE
    /\ rateLimitWait' = 0
    /\ lastRequestRef' = Request(photos, questionnaire)
    /\ item' = setLastAnalyzeAt(now)
    /\ acceptedAt' = now
    /\ IF photoArray(photos) = <<>>
       THEN /\ error' = Err("No photos to analyze")
            /\ errorType' = "network_error"
            /\ inFlightRef' = FALSE
            /\ isAnalyzing' = FALSE
            /\ execs' = execs
            /\ last' = Step(op, "no", TRUE, TRUE, "none", 0, 0, "none")
       ELSE /\ error' = NullError
            /\ errorType' = "null"
            /\ inFlightRef' = TRUE
            /\ isAnalyzing' = TRUE
            /\ execs' = [execs EXCEPT ![FreeId] = StartedExec(photos)]
            /\ last' = Step(op, "no", TRUE, FALSE, "pending", 0, 0, "none")
    /\ UNCHANGED <<now, device, outsideHook, closureIsAnalyzing>>

AnalyzeCall(op, photos, questionnaire, e0, t0, f0, w0) ==
    \/ RejectBusy(op, e0, t0, f0, w0)
    \/ RejectCooldown(op, e0, t0, f0, w0)
    \/ Accept(op, photos, questionnaire)

\* analyze(photos, questionnaire)
Analyze ==
    \E input \in AnalyzeInputs :
        /\ AnalyzeCall("analyze", input.photos, input.questionnaire,
                       error, errorType, usedFallback, rateLimitWait)
        /\ callArgs' = input

\* variant: the empty retry stamps the cooldown store like an accepted call
RetryNothingStamps ==
    /\ lastRequestRef.isNull
    /\ error' = Err("No previous request to retry")
    /\ item' = setLastAnalyzeAt(now)
    /\ UNCHANGED <<now, device, outsideHook, isAnalyzing, errorType, usedFallback, usedSinglePhoto,
                   rateLimitWait, inFlightRef, lastRequestRef, closureIsAnalyzing, execs, acceptedAt>>
    /\ last' = Step("retry", "nothing", FALSE, FALSE, "none", 0, 0, "none")
    /\ callArgs' = NullRequest

\* retry(): the "nothing to retry" return, or clearError() followed by analyze(memo)
RetryNothing ==
    /\ lastRequestRef.isNull
    /\ error' = Err("No previous request to retry")
    /\ UNCHANGED <<now, item, device, outsideHook, isAnalyzing, errorType, usedFallback, usedSinglePhoto,
                   rateLimitWait, inFlightRef, lastRequestRef, closureIsAnalyzing, execs, acceptedAt>>
    /\ last' = Step("retry", "nothing", FALSE, FALSE, "none", 0, 0, "none")
    /\ callArgs' = NullRequest

\* variant: the replay resupplies the photos but not the questionnaire
RetryReplayPhotosOnly ==
    /\ ~lastRequestRef.isNull
    /\ AnalyzeCall("retry", lastRequestRef.photos, "NA", NullError, "null", FALSE, 0)
    /\ callArgs' = Request(lastRequestRef.photos, "NA")

RetryReplay ==
    /\ ~lastRequestRef.isNull
    /\ AnalyzeCall("retry", lastRequestRef.photos, lastRequestRef.questionnaire,
                   NullError, "null", FALSE, 0)
    /\ callArgs' = lastRequestRef

Retry == RetryNothing \/ RetryReplay

\* variant: clearError() also drops the single-photo flag
ClearErrorResetsAll ==
    /\ error' = NullError
    /\ errorType' = "null"
    /\ usedFallback' = FALSE
    /\ usedSinglePhoto' = FALSE
    /\ rateLimitWait' = 0
    /\ UNCHANGED <<now, item, device, outsideHook, isAnalyzing, inFlightRef,
                   lastRequestRef, closureIsAnalyzing, execs, acceptedAt>>
    /\ last' = Step("clearError", "no", FALSE, FALSE, "none", 0, 0, "none")
    /\ callArgs' = NullRequest

\* clearError()
ClearError ==
    /\ error' = NullError
    /\ errorType' = "null"
    /\ usedFallback' = FALSE
    /\ rateLimitWait' = 0
    /\ UNCHANGED <<now, item, device, outsideHook, isAnalyzing, usedSinglePhoto, inFlightRef,
                   lastRequestRef, closureIsAnalyzing, execs, acceptedAt>>
    /\ last' = Step("clearError", "no", FALSE, FALSE, "none", 0, 0, "none")
    /\ callArgs' = NullRequest

\* React re-renders the hook: useCallback(..., [isAnalyzing]) captures the current state
Render ==
    /\ closureIsAnalyzing # isAnalyzing
    /\ closureIsAnalyzing' = isAnalyzing
    /\ UNCHANGED <<now, item, device, outsideHook, hookState, inFlightRef, lastRequestRef, execs, acceptedAt>>
    /\ last' = Step("render", "no", FALSE, FALSE, "none", 0, 0, "none")
    /\ callArgs' = NullRequest

\* variant: the countdown neither stops at 0 nor is floored
DecayUnbounded(w, n) == w - n

\* the rate-limit countdown after n seconds: while rateLimitWait > 0 the interval
\* applies prev => Math.max(0, prev - 1) once per second
RECURSIVE Decay(_, _)
Decay(w, n) ==
    IF n = 0 \/ w <= 0 THEN w
    ELSE Decay(IF w - 1 < 0 THEN 0 ELSE w - 1, n - 1)

\* time passes; the countdown interval fires once for every second of it
Tick ==
    \E d \in TickSteps :
        /\ now + d <= StartTime + MaxElapsedMs
        /\ now' = now + d
        /\ rateLimitWait' = Decay(rateLimitWait, d \div 1000)
        /\ UNCHANGED <<item, device, outsideHook, isAnalyzing, error, errorType, usedFallback,
                       usedSinglePhoto, inFlightRef, lastRequestRef,
                       closureIsAnalyzing, execs, acceptedAt>>
        /\ last' = Step("tick", "no", FALSE, FALSE, "none", 0, 0, "none")
        /\ callArgs' = NullRequest

\* ------------------------------------------- the continuations of analyze()
\* what every return after the lock leaves alone
ResolveFrame ==
    /\ UNCHANGED <<now, item, device, outsideHook, lastRequestRef, closureIsAnalyzing, acceptedAt>>
    /\ callArgs' = NullRequest

Resolved(op, e, ret, body) ==
    Step(op, "no", FALSE, TRUE, ret, execs[e].requests, execs[e].status, body)

Pending(op, e) ==
    Step(op, "no", FALSE, FALSE, "pending", execs[e].requests, execs[e].status, "none")

\* variant: the outer catch leaves isAnalyzing up
FallbackKeepsAnalyzing(op, e, body) ==
    /\ error' = Err("AI analysis unavailable - showing demo result")
    /\ errorType' = "network_error"
    /\ usedFallback' = TRUE
    /\ inFlightRef' = FALSE
    /\ execs' = [execs EXCEPT ![e] = FreeExec]
    /\ UNCHANGED <<isAnalyzing, usedSinglePhoto, rateLimitWait>>
    /\ \E r \in RandomDraws :
           last' = [Resolved(op, e, "fallback", body)
                       EXCEPT !.result = generateFallbackResult(r), !.random = r]
    /\ ResolveFrame

\* variant: the outer catch returns the demo result without raising the flag
FallbackUnflagged(op, e, body) ==
    /\ error' = Err("AI analysis unavailable - showing demo result")
    /\ errorType' = "network_error"
    /\ inFlightRef' = FALSE
    /\ isAnalyzing' = FALSE
    /\ execs' = [execs EXCEPT ![e] = FreeExec]
    /\ UNCHANGED <<usedFallback, usedSinglePhoto, rateLimitWait>>
    /\ \E r \in RandomDraws :
           last' = [Resolved(op, e, "fallback", body)
                       EXCEPT !.result = generateFallbackResult(r), !.random = r]
    /\ ResolveFrame

\* the outer catch: fallback result
Fallback(op, e, body) ==
    /\ error' = Err("AI analysis unavailable - showing demo result")
    /\ errorType' = "network_error"
    /\ usedFallback' = TRUE
    /\ inFlightRef' = FALSE
    /\ isAnalyzing' = FALSE
    /\ execs' = [execs EXCEPT ![e] = FreeExec]
    /\ UNCHANGED <<usedSinglePhoto, rateLimitWait>>
    /\ \E r \in RandomDraws :
           last' = [Resolved(op, e, "fallback", body)
                       EXCEPT !.result = generateFallbackResult(r), !.random = r]
    /\ ResolveFrame

\* if (!GEMINI_API_KEY): server_error, return null
MissingKey(e, trimmed) ==
    /\ error' = Err("Gemini API key not configured")
    /\ errorType' = "server_error"
    /\ usedSinglePhoto' = (trimmed \/ usedSinglePhoto)
    /\ inFlightRef' = FALSE
    /\ isAnalyzing' = FALSE
    /\ execs' = [execs EXCEPT ![e] = FreeExec]
    /\ UNCHANGED <<usedFallback, rateLimitWait>>
    /\ last' = Resolved("compress", e, "none", "none")
    /\ ResolveFrame

\* await fetch(...): the request is issued with photosToSend[0] only
IssueFetch(e, photosToSend, trimmed, totalSize) ==
    /\ usedSinglePhoto' = (trimmed \/ usedSinglePhoto)
    /\ execs' = [execs EXCEPT ![e] =
                    [@ EXCEPT !.pc = "fetching",
                              !.comp = [s \in Slots |-> IF s \in execs[e].photos THEN "done" ELSE "absent"],
                              !.len = [s \in Slots |-> 0],
                              !.totalSize = totalSize,
                              !.photosToSend = photosToSend,
                              !.requestPhotos = <<photosToSend[1]>>,
                              !.requests = @ + 1]]
    /\ last' = [Pending("compress", e) EXCEPT !.reqs = execs[e].requests + 1]
    /\ callArgs' = NullRequest
    /\ UNCHANGED <<now, item, device, outsideHook, isAnalyzing, error, errorType, usedFallback,
                   rateLimitWait, inFlightRef, lastRequestRef, closureIsAnalyzing, acceptedAt>>

\* variant: the ceiling itself already counts as too large
AfterCompressInclusive(e, len) ==
    LET arr == photoArray(execs[e].photos)
        totalSize == SumSizes(arr, len)
        trimmed == totalSize >= MAX_PAYLOAD_SIZE
        photosToSend == IF trimmed THEN <<arr[1]>> ELSE arr
    IN  IF ~apiKey THEN MissingKey(e, trimmed) ELSE IssueFetch(e, photosToSend, trimmed, totalSize)

\* after Promise.all resolved: sizing, trimming, the key check, the request
AfterCompress(e, len) ==
    LET arr == photoArray(execs[e].photos)
        totalSize == SumSizes(arr, len)
        trimmed == totalSize > MAX_PAYLOAD_SIZE
        photosToSend == IF trimmed THEN <<arr[1]>> ELSE arr
    IN  IF ~apiKey THEN MissingKey(e, trimmed) ELSE IssueFetch(e, photosToSend, trimmed, totalSize)

\* variant: the continuation runs as soon as the first photo is compressed
CompressLoadFirstWins(e, s) ==
    /\ execs[e].pc = "compressing"
    /\ execs[e].comp[s] = "pending"
    /\ \E n \in Base64Lens :
        AfterCompress(e, [execs[e].len EXCEPT ![s] = n])

\* img.onload of one photo: the canvas is drawn and compressPhoto resolves; the
\* last one resolves Promise.all and the continuation runs
CompressLoad(e, s) ==
    /\ execs[e].pc = "compressing"
    /\ execs[e].comp[s] = "pending"
    /\ \E n \in Base64Lens :
        LET comp == [execs[e].comp EXCEPT ![s] = "done"]
            len == [execs[e].len EXCEPT ![s] = n]
        IN  IF \E t \in Slots : comp[t] = "pending"
            THEN /\ execs' = [execs EXCEPT ![e].comp = comp, ![e].len = len]
                 /\ last' = Pending("compress", e)
                 /\ callArgs' = NullRequest
                 /\ UNCHANGED <<now, item, device, outsideHook, hookState, inFlightRef, lastRequestRef,
                                closureIsAnalyzing, acceptedAt>>
            ELSE AfterCompress(e, len)

\* variant: a photo that fails to compress is sent as an empty image
CompressErrorSendsEmpty(e, s) ==
    /\ execs[e].pc = "compressing"
    /\ execs[e].comp[s] = "pending"
    /\ LET comp == [execs[e].comp EXCEPT ![s] = "done"]
           len == [execs[e].len EXCEPT ![s] = 0]
       IN  IF \E t \in Slots : comp[t] = "pending"
           THEN /\ execs' = [execs EXCEPT ![e].comp = comp, ![e].len = len]
                /\ last' = Pending("compressError", e)
                /\ callArgs' = NullRequest
                /\ UNCHANGED <<now, item, device, outsideHook, hookState, inFlightRef, lastRequestRef,
                               closureIsAnalyzing, acceptedAt>>
           ELSE AfterCompress(e, len)

\* img.onerror, or getContext('2d') returns null: compressPhoto rejects, Promise.all
\* rejects and the outer catch runs; the other photos' handlers have no effect left
CompressError(e, s) ==
    /\ execs[e].pc = "compressing"
    /\ execs[e].comp[s] = "pending"
    /\ Fallback("compressError", e, "none")

\* variant: a rejected fetch is reported like an HTTP error
FetchRejectAsApiError(e) ==
    /\ execs[e].pc = "fetching"
    /\ error' = Err("Gemini API Error")
    /\ errorType' = "server_error"
    /\ inFlightRef' = FALSE
    /\ isAnalyzing' = FALSE
    /\ execs' = [execs EXCEPT ![e] = FreeExec]
    /\ UNCHANGED <<usedFallback, usedSinglePhoto, rateLimitWait>>
    /\ last' = Resolved("fetch", e, "none", "none")
    /\ ResolveFrame

\* fetch() rejects: the inner catch rethrows to the outer catch
FetchReject(e) ==
    /\ execs[e].pc = "fetching"
    /\ Fallback("fetch", e, "none")

\* fetch() resolves with a response of the given status
FetchResolve(e, status) ==
    /\ execs[e].pc = "fetching"
    /\ execs' = [execs EXCEPT ![e].pc = "body", ![e].status = status]
    /\ last' = [Pending("fetch", e) EXCEPT !.status = status]
    /\ callArgs' = NullRequest
    /\ UNCHANGED <<now, item, device, outsideHook, hookState, inFlightRef, lastRequestRef, closureIsAnalyzing,
                   acceptedAt>>

\* variant: a 429 falls through to the fallback result
RateLimitedFallback(e, body) ==
    /\ error' = Err("AI analysis unavailable - showing demo result")
    /\ errorType' = "network_error"
    /\ usedFallback' = TRUE
    /\ inFlightRef' = FALSE
    /\ isAnalyzing' = FALSE
    /\ execs' = [execs EXCEPT ![e] = FreeExec]
    /\ UNCHANGED <<usedSinglePhoto, rateLimitWait>>
    /\ last' = Resolved("body", e, "fallback", body)
    /\ ResolveFrame

\* variant: the 429 return sets the error but no wait
RateLimitedNoWait(e, body) ==
    /\ error' = Err("Rate limit exceeded. Try again in 60s.")
    /\ errorType' = "rate_limit"
    /\ inFlightRef' = FALSE
    /\ isAnalyzing' = FALSE
    /\ execs' = [execs EXCEPT ![e] = FreeExec]
    /\ UNCHANGED <<usedFallback, usedSinglePhoto, rateLimitWait>>
    /\ last' = Resolved("body", e, "none", body)
    /\ ResolveFrame

\* response.status === 429
RateLimited(e, body) ==
    /\ rateLimitWait' = RATE_LIMIT_WAIT_429
    /\ error' = Err("Rate limit exceeded. Try again in 60s.")
    /\ errorType' = "rate_limit"
    /\ inFlightRef' = FALSE
    /\ isAnalyzing' = FALSE
    /\ execs' = [execs EXCEPT ![e] = FreeExec]
    /\ UNCHANGED <<usedFallback, usedSinglePhoto>>
    /\ last' = Resolved("body", e, "none", body)
    /\ ResolveFrame

\* variant: every HTTP error other than 429 is answered by issuing the request again
ApiErrorRefetches(e, body) ==
    /\ execs' = [execs EXCEPT ![e].pc = "fetching", ![e].status = 0]
    /\ last' = Pending("body", e)
    /\ callArgs' = NullRequest
    /\ UNCHANGED <<now, item, device, outsideHook, hookState, inFlightRef, lastRequestRef, closureIsAnalyzing,
                   acceptedAt>>

\* variant: every HTTP error other than 429 is retried while attempts remain
ApiErrorRetries(e, body) ==
    /\ execs[e].requests < MAX_RETRIES
    /\ execs' = [execs EXCEPT ![e].pc = "fetching", ![e].status = 0, ![e].requests = @ + 1]
    /\ last' = [Pending("body", e) EXCEPT !.reqs = execs[e].requests + 1]
    /\ callArgs' = NullRequest
    /\ UNCHANGED <<now, item, device, outsideHook, hookState, inFlightRef, lastRequestRef, closureIsAnalyzing,
                   acceptedAt>>

\* any other !response.ok
ApiError(e, body) ==
    /\ error' = Err("Gemini API Error")
    /\ errorType' = "server_error"
    /\ inFlightRef' = FALSE
    /\ isAnalyzing' = FALSE
    /\ execs' = [execs EXCEPT ![e] = FreeExec]
    /\ UNCHANGED <<usedFallback, usedSinglePhoto, rateLimitWait>>
    /\ last' = Resolved("body", e, "none", body)
    /\ ResolveFrame

\* if (!text)
\* variant: the empty-text return reports a message without an error type
NoTextUntyped(e, body) ==
    /\ error' = Err("No response from Gemini")
    /\ inFlightRef' = FALSE
    /\ isAnalyzing' = FALSE
    /\ execs' = [execs EXCEPT ![e] = FreeExec]
    /\ UNCHANGED <<errorType, usedFallback, usedSinglePhoto, rateLimitWait>>
    /\ last' = Resolved("body", e, "none", body)
    /\ ResolveFrame

NoText(e, body) ==
    /\ error' = Err("No response from Gemini")
    /\ errorType' = "server_error"
    /\ inFlightRef' = FALSE
    /\ isAnalyzing' = FALSE
    /\ execs' = [execs EXCEPT ![e] = FreeExec]
    /\ UNCHANGED <<usedFallback, usedSinglePhoto, rateLimitWait>>
    /\ last' = Resolved("body", e, "none", body)
    /\ ResolveFrame

\* variant: the truncated-output return forgets to release the lock
TruncatedLeaky(e, body) ==
    /\ error' = Err("AI response was truncated. Please try again.")
    /\ errorType' = "server_error"
    /\ execs' = [execs EXCEPT ![e] = FreeExec]
    /\ UNCHANGED <<inFlightRef, isAnalyzing, usedFallback, usedSinglePhoto, rateLimitWait>>
    /\ last' = Resolved("body", e, "none", body)
    /\ ResolveFrame

\* if (finishReason === 'MAX_TOKENS')
Truncated(e, body) ==
    /\ error' = Err("AI response was truncated. Please try again.")
    /\ errorType' = "server_error"
    /\ inFlightRef' = FALSE
    /\ isAnalyzing' = FALSE
    /\ execs' = [execs EXCEPT ![e] = FreeExec]
    /\ UNCHANGED <<usedFallback, usedSinglePhoto, rateLimitWait>>
    /\ last' = Resolved("body", e, "none", body)
    /\ ResolveFrame

\* variant: the success return leaves isAnalyzing up
SuccessKeepsAnalyzing(e, body) ==
    /\ inFlightRef' = FALSE
    /\ execs' = [execs EXCEPT ![e] = FreeExec]
    /\ UNCHANGED <<isAnalyzing, error, errorType, usedFallback, usedSinglePhoto, rateLimitWait>>
    /\ \E parsed \in ParsedBodies :
           last' = [Resolved("body", e, "real", body) EXCEPT !.result = ParsedResult(parsed)]
    /\ ResolveFrame

\* the parsed result is returned
Success(e, body) ==
    /\ inFlightRef' = FALSE
    /\ isAnalyzing' = FALSE
    /\ execs' = [execs EXCEPT ![e] = FreeExec]
    /\ UNCHANGED <<error, errorType, usedFallback, usedSinglePhoto, rateLimitWait>>
    /\ \E parsed \in ParsedBodies :
           last' = [Resolved("body", e, "real", body) EXCEPT !.result = ParsedResult(parsed)]
    /\ ResolveFrame

\* !response.ok: await response.text(), then the 429 test
HttpError(e, body) ==
    IF body = "unreadable" THEN Fallback("body", e, body)
    ELSE IF execs[e].status = 429 THEN RateLimited(e, body)
    ELSE ApiError(e, body)

\* response.ok: await response.json(), the text, the finish reason, JSON.parse
HttpOk(e, body) ==
    CASE body = "unreadable" -> Fallback("body", e, body)
      [] body = "no_text" -> NoText(e, body)
      [] body = "truncated" -> Truncated(e, body)
      [] body = "unparsable" -> Fallback("body", e, body)
      [] body = "valid" -> Success(e, body)

\* response.ok is status in 200..299
ResponseOk(status) == status >= 200 /\ status <= 299

\* the body read settles
BodySettle(e) ==
    /\ execs[e].pc = "body"
    /\ IF ResponseOk(execs[e].status)
       THEN \E body \in OkBodies : HttpOk(e, body)
       ELSE \E body \in ErrBodies : HttpError(e, body)

\* ------------------------------------------------------------ specification
Next ==
    \/ Analyze
    \/ Retry
    \/ ClearError
    \/ Render
    \/ Tick
    \/ \E e \in ExecIds, s \in Slots : CompressLoad(e, s)
    \/ \E e \in ExecIds, s \in Slots : CompressError(e, s)
    \/ \E e \in ExecIds : FetchReject(e)
    \/ \E e \in ExecIds, status \in Statuses : FetchResolve(e, status)
    \/ \E e \in ExecIds : BodySettle(e)

Spec == Init /\ [][Next]_vars

\* ------------------------------------------------------------------ claims
IsCall(op) == op \in {"analyze", "retry"}

\* the hook has re-rendered since isAnalyzing last changed: callers hold the
\* analyze callback that captured the current state
Rendered == closureIsAnalyzing = isAnalyzing

\* the cooldown store works on this device
StoreWorks == ~getItemThrows /\ ~setItemThrows

\* C1: in every reachable state at most one accepted analyze() execution is
\* between lock acquisition and resolution (compressing, requesting or reading
\* the response), whatever analyze() and retry() calls are interleaved with it.
C1_SingleFlight == Cardinality(InFlightIds) <= 1

\* a retry() is turned away as busy while the one execution reads the response
C1_Witness ==
    /\ last.op = "retry" /\ last.rejected = "busy"
    /\ \E e \in ExecIds : execs[e].pc = "body"
    /\ Cardinality(InFlightIds) = 1

\* C2: an analyze() call made while an accepted call has not resolved returns
\* null and changes nothing: error, errorType, usedFallback, usedSinglePhoto,
\* rateLimitWait, isAnalyzing, the stored timestamp, the lock and the remembered
\* request are unchanged, and no compression or request is started.
C2_BusyCallChangesNothing ==
    [][ (InFlightIds # {} /\ last'.op = "analyze")
        => /\ last'.rejected = "busy"
           /\ last'.ret = "none"
           /\ UNCHANGED <<error, errorType, usedFallback, usedSinglePhoto, rateLimitWait,
                          isAnalyzing, item, inFlightRef, lastRequestRef, execs, acceptedAt>> ]_vars

\* an analyze() call was turned away while the request of the first was pending
C2_Witness ==
    /\ last.op = "analyze" /\ last.rejected = "busy"
    /\ \E e \in ExecIds : execs[e].pc = "fetching" /\ execs[e].requests = 1

C4_CooldownTakesNoLock ==
    /\ [][ last'.rejected = "cooldown"
           => /\ ~inFlightRef /\ ~inFlightRef'
              /\ ~isAnalyzing /\ ~isAnalyzing'
              /\ execs' = execs /\ InFlightIds = {}
              /\ ~SingleFlightGuard' ]_vars
    /\ [][ (~SingleFlightGuard /\ ~last'.accepted) => ~SingleFlightGuard' ]_vars

\* a retry() was rejected by the cooldown and left the lock free
C4_Witness ==
    /\ last.op = "retry" /\ last.rejected = "cooldown"
    /\ ~inFlightRef /\ ~isAnalyzing /\ InFlightIds = {}
    /\ error.sec > 0

\* C5: while an accepted call is in flight (compressing, requesting or reading
\* the response) the timestamp of its start is already in the store (when the
\* store accepts writes), and every analyze() or retry() call made while its
\* request is pending is rejected, as busy or by the cooldown, and starts nothing.
C5_StampBeforeRequest ==
    /\ [](\A e \in ExecIds : InFlight(e) =>
            /\ acceptedAt = execs[e].startedAt
            /\ ~setItemThrows => item = StrItem(String(execs[e].startedAt)))
    /\ [][ ((\E e \in ExecIds : execs[e].pc \in {"fetching", "body"}) /\ IsCall(last'.op))
           => (last'.rejected \in {"busy", "cooldown"} /\ execs' = execs) ]_vars

\* a call is rejected while the request has been pending past the cooldown
C5_Witness ==
    /\ last.rejected = "busy"
    /\ \E e \in ExecIds : /\ execs[e].pc = "fetching"
                          /\ now - execs[e].startedAt >= MIN_COOLDOWN_MS
                          /\ item = StrItem(String(execs[e].startedAt))

C7_RetryBudget ==
    (last.resolved /\ last.status = 503)
        => (last.reqs = MAX_RETRIES /\ last.ret = "fallback" /\ usedFallback)

\* C8: no execution issues more than one request, and a call that resolves on
\* a response other than 503 (success, 413, 429, another HTTP error, a malformed
\* body) or on a transport failure has issued exactly one.
C8_SingleShot ==
    /\ \A e \in ExecIds : execs[e].requests <= 1
    /\ (last.resolved /\ last.op \in {"fetch", "body"} /\ last.status # 503) => last.reqs = 1

\* a call resolved on a 500 after one request
C8_Witness == last.resolved /\ last.status = 500 /\ last.body = "text" /\ last.reqs = 1

\* C9: on an HTTP error status other than 413, 429 and 503 the call resolves
\* with a fallback result, usedFallback = true and a server_error or
\* network_error advisory.
C9_ServerErrorFallback ==
    (last.resolved /\ last.op = "body" /\ ~ResponseOk(last.status)
        /\ last.status \notin {413, 429, 503})
        => /\ last.ret = "fallback"
           /\ usedFallback
           /\ errorType \in {"server_error", "network_error"}

C11_PayloadTooLarge ==
    (last.resolved /\ last.status = 413 /\ last.body = "text")
        => (last.ret = "none" /\ errorType = "payload_too_large")

C13_NoPhotos ==
    [][ (last'.accepted /\ lastRequestRef'.photos = {})
        => /\ last'.resolved
           /\ last'.ret = "none"
           /\ last'.reqs = 0
           /\ error' = Err("No photos to analyze")
           /\ errorType' = "network_error"
           /\ ~usedFallback'
           /\ execs' = execs /\ InFlightIds = {}
           /\ ~inFlightRef' /\ ~isAnalyzing' ]_vars

\* an analyze() call with no photo was accepted and resolved in the same step
C13_Witness ==
    /\ last.op = "analyze" /\ last.accepted /\ last.resolved
    /\ lastRequestRef.photos = {} /\ ~lastRequestRef.isNull
    /\ errorType = "network_error" /\ ~usedFallback
    /\ ~inFlightRef /\ InFlightIds = {}

\* the position of a slot in the order front, left, right
SlotRank(s) == CHOOSE i \in 1 .. Len(SlotOrder) : SlotOrder[i] = s

\* the first present slot in that order
FirstPresent(photos) == CHOOSE s \in photos : \A t \in photos : SlotRank(s) <= SlotRank(t)

Requesting(e) == execs[e].pc \in {"fetching", "body"}

\* C14: for a call whose request was issued: when the summed size of the
\* compressed photos exceeds MAX_PAYLOAD_SIZE, exactly one photo is sent, the
\* first present slot in the order front, left, right, and usedSinglePhoto is
\* true; when the sum does not exceed it, usedSinglePhoto is false.
C14_PayloadTrimming ==
    \A e \in ExecIds : Requesting(e) =>
        IF execs[e].totalSize > MAX_PAYLOAD_SIZE
        THEN /\ execs[e].photosToSend = <<FirstPresent(execs[e].photos)>>
             /\ execs[e].requestPhotos = <<FirstPresent(execs[e].photos)>>
             /\ usedSinglePhoto
        ELSE ~usedSinglePhoto

\* two photos without a front one exceeded the ceiling and the left one was sent
C14_Witness ==
    \E e \in ExecIds :
        /\ execs[e].pc = "fetching"
        /\ execs[e].photos = {"left", "right"}
        /\ execs[e].totalSize > MAX_PAYLOAD_SIZE
        /\ execs[e].requestPhotos = <<"left">>
        /\ usedSinglePhoto

\* C15: when the summed size does not exceed MAX_PAYLOAD_SIZE, the request
\* carries every present photo: as many photos as there are present slots.
C15_AllPhotosSent ==
    \A e \in ExecIds :
        (Requesting(e) /\ execs[e].totalSize <= MAX_PAYLOAD_SIZE)
            => Len(execs[e].requestPhotos) = Cardinality(execs[e].photos)

\* ---------------------------------------- the fallback generator on its own
\* generateFallbackResult() called once, on one draw of Math.random()
GenerateFallback(r) ==
    /\ last.op = "init"
    /\ last' = [Step("generateFallbackResult", "no", FALSE, FALSE, "fallback", 0, 0, "none")
                   EXCEPT !.result = generateFallbackResult(r), !.random = r]
    /\ UNCHANGED <<now, item, device, outsideHook, hookState, inFlightRef, lastRequestRef,
                   closureIsAnalyzing, execs, acceptedAt, callArgs>>

NextFallback == \E r \in Randoms : GenerateFallback(r)

SpecFallback == Init /\ [][NextFallback]_vars

Range(s) == {s[i] : i \in 1..Len(s)}

\* C16: every result of the fallback generator has confidence exactly 0, a non-empty
\* disclaimer carrying the not-a-real-analysis marker, non-empty observations,
\* likely_patterns, general_options and when_to_see_a_dermatologist lists, and a
\* score within 2.0 .. 7.0 (hence within 0 .. 10), whatever Math.random() returns
C16_FallbackResult ==
    last.ret = "fallback" =>
        /\ ~last.result.isNull
        /\ last.result.confidence = Num(0)
        /\ last.result.disclaimer # <<>>
        /\ NOT_REAL_MARKER \in Range(last.result.disclaimer)
        /\ last.result.observations > 0
        /\ last.result.likely_patterns > 0
        /\ last.result.general_options > 0
        /\ last.result.when_to_see_a_dermatologist > 0
        /\ ~last.result.score.nan
        /\ last.result.score.v >= 20 /\ last.result.score.v <= 70
        /\ last.result.score.v >= 0 /\ last.result.score.v <= 100

\* the largest draw gives the top of the range
C16_Witness ==
    /\ last.ret = "fallback"
    /\ last.random = RandomScale - 1
    /\ last.result.score = Num(70)

\* C17: retry() called when no analyze() call was accepted earlier returns None, sets
\* the "nothing to retry" error, does not write the cooldown store, does not take the
\* lock and starts no execution and no network request
C17_RetryWithNothing ==
    [][ (last'.op = "retry" /\ acceptedAt < 0) =>
            /\ last'.rejected = "nothing"
            /\ last'.ret = "none"
            /\ ~last'.accepted
            /\ last'.reqs = 0
            /\ error' = Err("No previous request to retry")
            /\ item' = item
            /\ inFlightRef' = inFlightRef
            /\ isAnalyzing' = isAnalyzing
            /\ execs' = execs
            /\ lastRequestRef' = lastRequestRef
            /\ acceptedAt' = acceptedAt ]_vars

\* the empty retry answered the same way with an empty store and with a fresh stamp in it
C17_Witness ==
    /\ last.op = "retry"
    /\ last.rejected = "nothing"
    /\ acceptedAt < 0
    /\ item = StrItem(String(StartTime - 1500))
    /\ error = Err("No previous request to retry")
    /\ ~inFlightRef

\* C18 as stated: retry() replays the pair of the most recent analyze() call, the
\* memo being overwritten on every analyze() call
C18_MemoOnEveryCall ==
    [][ last'.op = "analyze" => lastRequestRef' = callArgs' ]_vars

\* C18 amended: the memo is overwritten by every accepted analyze() call and by
\* nothing else, and retry() invokes analyze with the memo, that is with the pair of
\* the most recent accepted call
C18_MemoOnAcceptedCall ==
    [][ /\ (last'.op = "analyze" /\ last'.accepted) => lastRequestRef' = callArgs'
        /\ ~last'.accepted => lastRequestRef' = lastRequestRef
        /\ (last'.op = "retry" /\ last'.rejected # "nothing") =>
              /\ ~lastRequestRef.isNull
              /\ callArgs' = lastRequestRef
              /\ lastRequestRef' = lastRequestRef
              /\ (last'.accepted /\ ~last'.resolved) =>
                    \E e \in ExecIds : /\ ~InFlight(e)
                                       /\ execs'[e].pc # "free"
                                       /\ execs'[e].photos = lastRequestRef.photos ]_vars

\* a rejected analyze() call with a new pair has left the older memo in place
C18_Witness ==
    /\ last.op = "analyze"
    /\ ~last.accepted
    /\ ~lastRequestRef.isNull
    /\ callArgs # lastRequestRef
    /\ callArgs.questionnaire # lastRequestRef.questionnaire

\* C19: clearError() sets error and errorType to null and leaves the in-flight lock,
\* isAnalyzing, the stored cooldown timestamp, the request memo and usedSinglePhoto
\* unchanged, whether or not an analysis is in flight
C19_ClearErrorFrame ==
    [][ last'.op = "clearError" =>
            /\ error' = NullError
            /\ errorType' = "null"
            /\ inFlightRef' = inFlightRef
            /\ isAnalyzing' = isAnalyzing
            /\ item' = item
            /\ lastRequestRef' = lastRequestRef
            /\ usedSinglePhoto' = usedSinglePhoto
            /\ execs' = execs ]_vars

\* clearError() was called while a trimmed request was in flight
C19_Witness ==
    /\ last.op = "clearError"
    /\ inFlightRef /\ isAnalyzing
    /\ usedSinglePhoto
    /\ \E e \in ExecIds : execs[e].pc = "fetching"
    /\ error = NullError /\ errorType = "null"

\* C20: analyze() never throws or rejects to its caller: every outcome is None, a
\* result, or still pending; and whenever it resolves to None for a reason other than
\* the silent single-flight rejection, error and errorType are both non-null then
C20_NoneCarriesError ==
    /\ last.ret \in {"none", "real", "fallback", "pending"}
    /\ last.ret \in {"real", "fallback"} => ~last.result.isNull
    /\ (last.ret = "none" /\ (last.resolved \/ last.rejected = "cooldown")) =>
            (error # NullError /\ errorType # "null")

\* a 200 response without text resolved to None with both fields set, on a device
\* whose storage throws
C20_Witness ==
    /\ last.resolved
    /\ last.ret = "none"
    /\ last.body = "no_text"
    /\ getItemThrows /\ setItemThrows
    /\ error = Err("No response from Gemini")
    /\ errorType = "server_error"

\* ------------------------------------------------------------------ liveness
\* the browser's part of an execution: every compression settles (onload or onerror),
\* every fetch settles, every body read settles
Settle ==
    \/ \E e \in ExecIds, s \in Slots : CompressLoad(e, s)
    \/ \E e \in ExecIds, s \in Slots : CompressError(e, s)
    \/ \E e \in ExecIds : FetchReject(e)
    \/ \E e \in ExecIds, status \in Statuses : FetchResolve(e, status)
    \/ \E e \in ExecIds : BodySettle(e)

\* a fresh session on a device with a working, empty store
LiveInit == Init /\ ~getItemThrows /\ ~setItemThrows /\ item = NullItem

LiveSpec == LiveInit /\ [][Next]_vars /\ WF_vars(Settle)

\* the call resolved to a result, or to None with error and errorType set
ResolvedDocumented ==
    /\ last.resolved
    /\ \/ last.ret \in {"real", "fallback"} /\ ~last.result.isNull
       \/ last.ret = "none" /\ error # NullError /\ errorType # "null"

\* C21: an accepted analyze() call with at least one photo present eventually resolves,
\* to a result or to None with an error state, provided every compression and every
\* network request it issues eventually completes or fails
\* (at most one execution is in flight at a time, C1)
C21_EventuallyResolves ==
    (\E e \in ExecIds : InFlight(e) /\ execs[e].photos # {})
        ~> (InFlightIds = {} /\ ResolvedDocumented)

\* a call with three photos went through compression, fetch and body read and
\* resolved with a parsed result
C21_Witness ==
    /\ last.resolved
    /\ last.op = "body"
    /\ last.ret = "real"
    /\ lastRequestRef.photos = {"front", "left", "right"}
    /\ InFlightIds = {}

\* C22: when an analyze() call resolves with a result, usedFallback is true exactly
\* when the result came from the fallback generator; a parsed result is returned
\* with usedFallback false
C22_FallbackFlag ==
    (last.resolved /\ last.ret \in {"real", "fallback"}) =>
        /\ usedFallback <=> (last.ret = "fallback")
        /\ (last.ret = "fallback") <=> (last.random # NoRandom)
        /\ last.ret = "real" => last.result.disclaimer = REAL_DISCLAIMER

\* a later call returned a parsed result with the flag down
C22_Witness ==
    /\ last.resolved
    /\ last.ret = "real"
    /\ ~usedFallback
    /\ acceptedAt > StartTime

\* C23: with at least one photo present, a combined size within the ceiling and a 200
\* answer carrying a valid analysis body to the first request, analyze() resolves with
\* a result derived from that body, usedFallback and usedSinglePhoto false, error null
\* and isAnalyzing back to false
C23_SuccessScenario ==
    [][ \A e \in ExecIds :
            ( /\ execs[e].pc = "body"
              /\ execs[e].photos # {}
              /\ execs[e].totalSize <= MAX_PAYLOAD_SIZE
              /\ execs[e].status = 200
              /\ execs[e].requests = 1
              /\ execs'[e].pc = "free"
              /\ last'.body = "valid" )
            => /\ last'.resolved
               /\ last'.ret = "real"
               /\ ~last'.result.isNull
               /\ last'.result \in {ParsedResult(parsed) : parsed \in ParsedBodies}
               /\ ~usedFallback'
               /\ ~usedSinglePhoto'
               /\ error' = NullError
               /\ errorType' = "null"
               /\ ~isAnalyzing'
               /\ ~inFlightRef' ]_vars

\* three photos of exactly the ceiling in total were answered with score 7.4
C23_Witness ==
    /\ last.resolved
    /\ last.status = 200
    /\ last.body = "valid"
    /\ last.ret = "real"
    /\ last.result.score = Num(74)
    /\ lastRequestRef.photos = {"front", "left", "right"}
    /\ ~usedSinglePhoto /\ ~usedFallback /\ ~isAnalyzing
    /\ error = NullError

\* C24: every result analyze() returns, parsed or fallback, has its score within
\* 0 .. 10, its confidence within 0 .. 1 and a non-empty disclaimer, whatever score and
\* confidence the endpoint returned (absent, out of range, or not a number)
C24_ResultRanges ==
    (last.resolved /\ last.ret \in {"real", "fallback"}) =>
        /\ ~last.result.score.nan
        /\ last.result.score.v >= 0 /\ last.result.score.v <= 100
        /\ ~last.result.confidence.nan
        /\ last.result.confidence.v >= 0 /\ last.result.confidence.v <= 100
        /\ last.result.disclaimer # <<>>

\* C25: when fetch rejects, or the response body cannot be read or parsed, analyze()
\* resolves with a fallback result, usedFallback true and errorType network_error,
\* after exactly one network request and with the lock released
C25_TransportFailureFallsBack ==
    (last.resolved /\ (last.op = "fetch" \/ last.body \in {"unparsable", "unreadable"})) =>
        /\ last.ret = "fallback"
        /\ ~last.result.isNull
        /\ usedFallback
        /\ errorType = "network_error"
        /\ last.reqs = 1
        /\ ~inFlightRef
        /\ ~isAnalyzing
        /\ InFlightIds = {}

\* a rejected fetch of a trimmed request ended in the fallback result
C25_Witness ==
    /\ last.resolved
    /\ last.op = "fetch"
    /\ last.ret = "fallback"
    /\ last.reqs = 1
    /\ usedFallback /\ usedSinglePhoto
    /\ errorType = "network_error"
    /\ ~inFlightRef

\* C26: when the compression of a present photo fails, analyze() issues no network
\* request and resolves with a fallback result, usedFallback true and errorType
\* network_error, with the lock released
C26_CompressionFailureFallsBack ==
    [][ \A e \in ExecIds :
            (execs[e].pc = "compressing" /\ last'.op = "compressError" /\ execs'[e] # execs[e])
            => /\ last'.resolved
               /\ last'.ret = "fallback"
               /\ ~last'.result.isNull
               /\ last'.reqs = 0
               /\ execs[e].requests = 0
               /\ execs'[e].pc = "free"
               /\ usedFallback'
               /\ errorType' = "network_error"
               /\ ~inFlightRef'
               /\ ~isAnalyzing' ]_vars

\* one of the two photos of a call failed to compress
C26_Witness ==
    /\ last.op = "compressError"
    /\ last.resolved
    /\ last.ret = "fallback"
    /\ last.reqs = 0
    /\ lastRequestRef.photos = {"left", "right"}
    /\ usedFallback
    /\ errorType = "network_error"
    /\ InFlightIds = {} /\ ~inFlightRef /\ ~isAnalyzing

\* C27: isAnalyzing and usedFallback are never both true, for any sequence of
\* analyze(), retry() and clearError() calls and any outcomes of compression and
\* network requests
C27_NotAnalyzingAndFallback == ~(isAnalyzing /\ usedFallback)

\* after a fallback result, a call rejected by the cooldown leaves the flag up and
\* the hook idle
C27_Witness ==
    /\ last.op = "analyze"
    /\ last.rejected = "cooldown"
    /\ usedFallback
    /\ ~isAnalyzing
    /\ InFlightIds = {}

\* C28: usedFallback true implies errorType is server_error or network_error: it is
\* never true together with errorType cooldown, rate_limit, payload_too_large or null
C28_FallbackImpliesEligibleError ==
    usedFallback => errorType \in {"server_error", "network_error"}

\* C29: an accepted analyze() call clears error, errorType, usedFallback,
\* usedSinglePhoto and rateLimitWait before any compression or network I/O, so while
\* the analysis is in flight none of them shows a value left by an earlier call
\* (usedSinglePhoto only when this call trimmed its own payload)
C29_NoStaleFlagsInFlight ==
    \A e \in ExecIds :
        InFlight(e) =>
            /\ error = NullError
            /\ errorType = "null"
            /\ ~usedFallback
            /\ rateLimitWait = 0
            /\ usedSinglePhoto => (Requesting(e) /\ execs[e].totalSize > MAX_PAYLOAD_SIZE)

\* a later accepted call is compressing its photos with every flag cleared
C29_Witness ==
    /\ last.op = "analyze"
    /\ last.accepted
    /\ ~last.resolved
    /\ acceptedAt >= StartTime + MIN_COOLDOWN_MS
    /\ \E e \in ExecIds : execs[e].pc = "compressing"
    /\ error = NullError /\ errorType = "null"
    /\ ~usedFallback /\ ~usedSinglePhoto /\ rateLimitWait = 0

\* C30: with a working cooldown store, the start times of any two accepted analyze()
\* calls are at least 20 seconds apart, whatever the outcome of the earlier call and
\* however many rejected calls lie in between
C30_AcceptedCallsSpaced ==
    [][ (StoreWorks /\ last'.accepted /\ acceptedAt >= 0) =>
            acceptedAt' - acceptedAt >= MIN_COOLDOWN_MS ]_vars

\* a retry, hence a second accepted call, was accepted once the interval had passed
C30_Witness ==
    /\ StoreWorks
    /\ last.op = "retry"
    /\ last.accepted
    /\ acceptedAt >= StartTime + MIN_COOLDOWN_MS
    /\ item = StrItem(String(acceptedAt))

\* the store gives no usable timestamp: getItem throws, or the item is missing, empty
\* or does not start with a digit
NoUsableTimestamp ==
    \/ getItemThrows
    \/ item.isNull
    \/ item.str = <<>>
    \/ parseInt(item.str).nan

\* C31: cooldown store failures degrade to always-allowed: a call made when reading
\* the store throws or yields no usable timestamp is not rejected by the cooldown
\* guard; a call accepted when writing throws leaves the store as it was and still
\* starts the compression of its photos; the call returns None or stays pending,
\* it does not throw
C31_StoreFailuresAllow ==
    [][ /\ (IsCall(last'.op) /\ NoUsableTimestamp) => last'.rejected # "cooldown"
        /\ (IsCall(last'.op) /\ NoUsableTimestamp /\ last'.rejected = "no") => last'.accepted
        /\ (IsCall(last'.op) /\ last'.accepted /\ setItemThrows) =>
              /\ item' = item
              /\ last'.ret \in {"none", "pending"}
              /\ callArgs'.photos # {} =>
                    \E e \in ExecIds : ~InFlight(e) /\ execs'[e].pc = "compressing" ]_vars

\* on a device whose store throws both ways, a retry was accepted in the same instant
\* as the call it replays and is compressing its photos
C31_Witness ==
    /\ getItemThrows /\ setItemThrows
    /\ last.op = "retry"
    /\ last.accepted
    /\ acceptedAt = StartTime
    /\ \E e \in ExecIds : execs[e].pc = "compressing"

\* C33: while rateLimitWait is positive it decreases by exactly 1 per elapsed second,
\* it never becomes negative, it stops changing once it is 0, and only a 429
\* response raises it above 0
C33_RateLimitCountdown ==
    [][ LET secs == (now' - now) \div 1000
        IN  /\ rateLimitWait >= 0 /\ rateLimitWait' >= 0
            /\ last'.op = "tick" =>
                  /\ secs > 0
                  /\ rateLimitWait' = IF rateLimitWait > secs THEN rateLimitWait - secs ELSE 0
                  /\ rateLimitWait = 0 => rateLimitWait' = 0
            /\ rateLimitWait' > rateLimitWait =>
                  /\ last'.resolved
                  /\ last'.status = 429
                  /\ rateLimitWait' = RATE_LIMIT_WAIT_429 ]_vars

\* twenty seconds after a 429 the countdown shows 40
C33_Witness ==
    /\ last.op = "tick"
    /\ errorType = "rate_limit"
    /\ rateLimitWait = RATE_LIMIT_WAIT_429 - 20
    /\ now - acceptedAt = 20000

\* C32: after a rate_limit error no call reaches the endpoint until the rate-limit
\* wait has decayed to 0: an analyze() or retry() made while rateLimitWait > 0 is
\* not accepted
C32_RateLimitWaitEnforced ==
    [][ (IsCall(last'.op) /\ errorType = "rate_limit" /\ rateLimitWait > 0) =>
            ~last'.accepted ]_vars

\* the photos of execution e whose compression has not settled
PendingSlots(e) == {s \in Slots : execs[e].comp[s] = "pending"}

\* C34: within one analyze() call the compressions of all present photos (at most 3)
\* are started together; the size check and the network request happen only when
\* every one of them has completed; if one fails, no request is issued for the call
C34_FanOutFanIn ==
    [][ \A e \in ExecIds :
          /\ (~InFlight(e) /\ execs'[e].pc # "free") =>
                /\ execs'[e].pc = "compressing"
                /\ Cardinality(execs'[e].photos) \in 1..3
                /\ \A s \in Slots :
                      execs'[e].comp[s] = IF s \in execs'[e].photos THEN "pending" ELSE "absent"
          /\ execs'[e].pc = "compressing" =>
                /\ execs'[e].requests = 0
                /\ execs'[e].totalSize = 0
                /\ execs'[e].photosToSend = <<>>
                /\ ~usedSinglePhoto'
          /\ (execs[e].pc = "compressing" /\ last'.op = "compress" /\ execs'[e].pc # "compressing") =>
                /\ Cardinality(PendingSlots(e)) = 1
                /\ execs'[e].pc \in {"fetching", "free"}
          /\ (execs[e].pc = "compressing" /\ last'.op = "compressError") =>
                /\ execs'[e].pc = "free"
                /\ execs[e].requests = 0
                /\ last'.reqs = 0 ]_vars

\* the last of three compressions completed and the request went out
C34_Witness ==
    /\ last.op = "compress"
    /\ last.reqs = 1
    /\ \E e \in ExecIds : /\ execs[e].pc = "fetching"
                          /\ execs[e].photos = {"front", "left", "right"}
                          /\ execs[e].totalSize > 0

\* C35: an accepted analyze() call with no photo present still writes the cooldown
\* timestamp and overwrites the request memo before failing; so, with a working store,
\* a call made within the next 20 seconds is rejected with cooldown, and retry()
\* replays the empty photo set
C35_EmptyCallCounts ==
    [][ /\ (last'.accepted /\ callArgs'.photos = {}) =>
              /\ last'.resolved /\ last'.ret = "none"
              /\ item' = setLastAnalyzeAt(now)
              /\ lastRequestRef' = callArgs'
              /\ acceptedAt' = now
        /\ ( /\ IsCall(last'.op)
             /\ ~lastRequestRef.isNull /\ lastRequestRef.photos = {}
             /\ StoreWorks
             /\ now - acceptedAt < MIN_COOLDOWN_MS ) =>
              /\ last'.rejected = "cooldown"
              /\ errorType' = "cooldown"
              /\ execs' = execs
        /\ (last'.op = "retry" /\ ~lastRequestRef.isNull /\ lastRequestRef.photos = {}) =>
              /\ callArgs' = lastRequestRef
              /\ callArgs'.photos = {} ]_vars

\* ten seconds after an accepted call without photos, a call with a photo was
\* rejected by the cooldown
C35_Witness ==
    /\ last.op = "analyze"
    /\ last.rejected = "cooldown"
    /\ callArgs.photos = {"front"}
    /\ ~lastRequestRef.isNull /\ lastRequestRef.photos = {}
    /\ now - acceptedAt = 10000
    /\ item = StrItem(String(acceptedAt))

\* ------------------------------------------------------- the scanning screen
\* everything the hook's own model is made of: the screen model abstracts the hook
\* to the promise analyze() returns, which resolves to a result or to null, or never
insideHook == <<now, item, device, hookState, inFlightRef, lastRequestRef,
                closureIsAnalyzing, execs, acceptedAt, callArgs, last>>

\* variant: the start effect does not consult hasStartedRef
StartGuardWithoutRef(s, photos) == ~photos.defined \/ Len(capturedPhotos(photos)) = 0

\* if (hasStartedRef.current || !photos || capturedPhotos.length === 0) return;
StartGuard(s, photos) ==
    s.hasStartedRef \/ ~photos.defined \/ Len(capturedPhotos(photos)) = 0

\* one run of the start effect with the photos prop of this render
runAnalysis(s, photos) ==
    IF StartGuard(s, photos) THEN [s EXCEPT !.photos = photos]
    ELSE [s EXCEPT !.photos = photos, !.hasStartedRef = TRUE, !.promise = "pending",
                   !.analyzeCalls = @ + 1]

\* one run of the progress effect: a new interval and a new timeAtNinetyFive
progressEffect(s) == [s EXCEPT !.progressTimer = interval, !.timeAtNinetyFive = 0]

\* the parent's onComplete: handleScanComplete(score, result) leaves the scanning screen
handleScanComplete(s, score, result) ==
    [s EXCEPT !.riskScore = score, !.shownResult = result, !.screen = "results"]

\* variant: the forced completion never comes due
ForcedDueNever(t) == FALSE

\* if (timeAtNinetyFive >= MAX_WAIT_AT_95)
ForcedDue(t) == t >= MAX_WAIT_AT_95

\* the effects of the first render
MountEffects(photos) ==
    /\ ~scanning.effectsRun
    /\ scanning' = [progressEffect(runAnalysis(scanning, photos))
                       EXCEPT !.effectsRun = TRUE, !.op = "mount"]
    /\ UNCHANGED <<insideHook, rateLimitMap, serverNow, served>>

\* a later render whose photos, questionnaire or analyze differ: the start effect re-runs
StartEffectRerun(photos) ==
    /\ scanning.effectsRun
    /\ scanning.screen = "scanning"
    /\ scanning.effectRuns < MaxEffectRuns
    /\ scanning' = [runAnalysis(scanning, photos) EXCEPT !.effectRuns = @ + 1, !.op = "startEffect"]
    /\ UNCHANGED <<insideHook, rateLimitMap, serverNow, served>>

\* await analyze(...) resumes with result (null included); a result re-runs the progress
\* effect, whose cleanup clears the interval; on an unmounted screen the updates are dropped
AnalyzeResolve(result) ==
    /\ scanning.promise = "pending"
    /\ scanning' =
          IF result.isNull \/ scanning.screen # "scanning"
          THEN [scanning EXCEPT !.promise = "settled", !.op = "resolve"]
          ELSE [progressEffect(scanning)
                   EXCEPT !.promise = "settled", !.analysisResult = result,
                          !.analysisComplete = TRUE, !.op = "resolve"]
    /\ UNCHANGED <<insideHook, rateLimitMap, serverNow, served>>

\* the interval callback: setProgress(prev => ...)
ProgressTick ==
    /\ scanning.progressTimer = 0
    /\ LET next == scanning.progress + increment
           held == scanning.timeAtNinetyFive + interval
       IN scanning' =
          IF next >= 100 * ProgressUnit /\ scanning.analysisComplete
          THEN [scanning EXCEPT !.progressTimer = NoTimer, !.progress = 100 * ProgressUnit,
                                !.timeouts = Append(@, [due |-> COMPLETE_DELAY, forced |-> FALSE,
                                                        result |-> scanning.analysisResult]),
                                !.op = "tick"]
          ELSE IF next >= 95 * ProgressUnit /\ ~scanning.analysisComplete
          THEN IF ForcedDue(held)
               THEN [scanning EXCEPT !.progressTimer = NoTimer, !.progress = 100 * ProgressUnit,
                                     !.timeAtNinetyFive = held,
                                     !.timeouts = Append(@, [due |-> COMPLETE_DELAY, forced |-> TRUE,
                                                             result |-> NullResult]),
                                     !.op = "tick"]
               ELSE [scanning EXCEPT !.progressTimer = interval, !.progress = 95 * ProgressUnit,
                                     !.timeAtNinetyFive = held, !.op = "tick"]
          ELSE [scanning EXCEPT !.progressTimer = interval,
                                !.progress = IF next < 100 * ProgressUnit THEN next
                                             ELSE 100 * ProgressUnit,
                                !.op = "tick"]
    /\ UNCHANGED <<insideHook, rateLimitMap, serverNow, served>>

\* a 300 ms timeout comes due, mounted or not: onComplete is called, the parent shows the
\* results and the screen's cleanup clears the interval; r is the draw of Math.random()
TimeoutFire(r) ==
    /\ scanning.timeouts # <<>>
    /\ Head(scanning.timeouts).due = 0
    /\ LET t == Head(scanning.timeouts)
           score == IF t.forced THEN DrawnScore(r, 5)
                    ELSE IF t.result.isNull THEN DrawnScore(r, 7)
                    ELSE ScoreOfResult(t.result)
           drawn == t.forced \/ t.result.isNull
       IN scanning' = [handleScanComplete(scanning, score, t.result)
                          EXCEPT !.timeouts = Tail(@), !.progressTimer = NoTimer,
                                 !.onCompleteCalls = @ + 1,
                                 !.completion = Completion(score, drawn, t.result),
                                 !.op = "onComplete"]
    /\ UNCHANGED <<insideHook, rateLimitMap, serverNow, served>>

\* the timers of the screen after ms milliseconds
RECURSIVE Elapse(_, _)
Elapse(timeouts, ms) ==
    IF timeouts = <<>> THEN <<>>
    ELSE <<[Head(timeouts) EXCEPT !.due = @ - ms]>> \o Elapse(Tail(timeouts), ms)

\* interval milliseconds pass in which no timer of the screen is due
Advance ==
    /\ scanning.progressTimer # NoTimer \/ scanning.timeouts # <<>>
    /\ scanning.progressTimer # 0
    /\ \A i \in 1 .. Len(scanning.timeouts) : scanning.timeouts[i].due > 0
    /\ scanning' = [scanning EXCEPT !.progressTimer = IF @ = NoTimer THEN NoTimer ELSE @ - interval,
                                    !.timeouts = Elapse(@, interval),
                                    !.op = "advance"]
    /\ UNCHANGED <<insideHook, rateLimitMap, serverNow, served>>

NextScreen ==
    \/ \E photos \in PhotoProps : MountEffects(photos)
    \/ \E photos \in PhotoProps : StartEffectRerun(photos)
    \/ \E result \in ScreenResults \cup {NullResult} : AnalyzeResolve(result)
    \/ ProgressTick
    \/ \E r \in RandomDraws : TimeoutFire(r)
    \/ Advance

\* one screen on a device with a working, empty store and a key
InitScreen == LiveInit /\ apiKey

SpecScreen == InitScreen /\ [][NextScreen]_vars

\* the timers fire and the first effects run
Timers == MountEffects([defined |-> TRUE, slots |-> {"front"}]) \/ ProgressTick \/ Advance \/ TimeoutFire(0)

LiveSpecScreen == InitScreen /\ [][NextScreen]_vars /\ WF_vars(Timers)

\* C36: one mounted ScanningScreen invokes analyze() at most once on its own
\* initiative, however many times its start effect re-runs (with whatever photos
\* prop, questionnaire or analyze callback the re-run sees)
C36_AnalyzeOnce == scanning.analyzeCalls <= 1

\* the start effect ran again twice after the run that called analyze(), the promise
\* still pending
C36_Witness ==
    /\ scanning.analyzeCalls = 1
    /\ scanning.effectRuns >= 2
    /\ scanning.promise = "pending"
    /\ Len(capturedPhotos(scanning.photos)) > 0

\* C37: one mounted ScanningScreen calls onComplete at most once, for every
\* interleaving of the progress timer, the forced-completion timeout and the
\* resolution of analyze()
C37_OnCompleteOnce == scanning.onCompleteCalls <= 1

\* a forced completion waits in a 300 ms timeout
ForcedPending(s) == \E i \in 1 .. Len(s.timeouts) : s.timeouts[i].forced

\* C38: a mounted ScanningScreen eventually calls onComplete, even when analyze()
\* resolves to null or never resolves; while no result has arrived progress does not
\* pass 95 until the 15 s of timeAtNinetyFive have run out, so progress is 100 only
\* with a result or after that timeout; the tick on which they run out, and no other
\* step, schedules the forced completion, taken with progress held at 95 and no
\* result, and the forced onComplete carries a score drawn as 2 + Math.random() * 5
\* and no result
C38_EventuallyCompletes ==
    /\ <>(scanning.onCompleteCalls >= 1)
    /\ [](/\ scanning.progress <= 100 * ProgressUnit
          /\ scanning.progress > 95 * ProgressUnit
                => (scanning.analysisComplete \/ scanning.timeAtNinetyFive >= MAX_WAIT_AT_95)
          /\ (~scanning.analysisComplete /\ scanning.timeAtNinetyFive < MAX_WAIT_AT_95)
                => scanning.timeouts = <<>>)
    /\ [][/\ (~ForcedPending(scanning) /\ ForcedPending(scanning'))
                => /\ scanning'.op = "tick"
                   /\ ~scanning.analysisComplete
                   /\ scanning.progress = 95 * ProgressUnit
                   /\ scanning'.progress = 100 * ProgressUnit
                   /\ scanning.timeAtNinetyFive = MAX_WAIT_AT_95 - interval
                   /\ scanning'.timeAtNinetyFive = MAX_WAIT_AT_95
          /\ (scanning'.op = "tick" /\ ~scanning.analysisComplete
                  /\ scanning.timeAtNinetyFive + interval >= MAX_WAIT_AT_95
                  /\ scanning.progress + increment >= 95 * ProgressUnit)
                => ForcedPending(scanning')
          /\ (scanning'.op = "onComplete" /\ Head(scanning.timeouts).forced)
                => /\ scanning'.completion.drawn
                   /\ scanning'.completion.result.isNull
                   /\ scanning'.shownResult.isNull
                   /\ scanning'.completion.score.den = RandomScale
                   /\ scanning'.completion.score.num >= 2 * RandomScale
                   /\ scanning'.completion.score.num < 7 * RandomScale
                   /\ scanning'.riskScore = scanning'.completion.score
       ]_vars

\* analyze() never resolved: progress was held at 95 for the whole wait and the parent
\* got a drawn score and no result
C38_Witness ==
    /\ scanning.promise = "pending"
    /\ scanning.onCompleteCalls = 1
    /\ scanning.completion.drawn
    /\ scanning.completion.result.isNull
    /\ scanning.timeAtNinetyFive = MAX_WAIT_AT_95
    /\ scanning.screen = "results"

\* ------------------------------------------------- the edge function's limiter
\* variant: the limit is tested with > instead of >=
isRateLimitedOffByOne(map, identifier, time) ==
    LET record == map[identifier]
    IN IF ~record.present \/ time > record.resetTime
       THEN [limited |-> FALSE,
             map |-> [map EXCEPT ![identifier] = Record(1, time + RATE_LIMIT_WINDOW)]]
       ELSE IF record.count > RATE_LIMIT_MAX THEN [limited |-> TRUE, map |-> map]
       ELSE [limited |-> FALSE, map |-> [map EXCEPT ![identifier].count = @ + 1]]

\* isRateLimited(identifier) at Date.now() = time: what it returns and the map it leaves
isRateLimited(map, identifier, time) ==
    LET record == map[identifier]
    IN IF ~record.present \/ time > record.resetTime
       THEN [limited |-> FALSE,
             map |-> [map EXCEPT ![identifier] = Record(1, time + RATE_LIMIT_WINDOW)]]
       ELSE IF record.count >= RATE_LIMIT_MAX THEN [limited |-> TRUE, map |-> map]
       ELSE [limited |-> FALSE, map |-> [map EXCEPT ![identifier].count = @ + 1]]

\* x-forwarded-for's first element || cf-connecting-ip || "unknown"; "" is falsy
clientIP(req) ==
    IF req.forwardedFor \notin {"null", ""} THEN req.forwardedFor
    ELSE IF req.connectingIp # "null" THEN req.connectingIp
    ELSE "unknown"

\* serve(req) up to the rate-limit check: OPTIONS is answered before it, a limited
\* request is answered 429, any other goes on to the handler
Serve(req) ==
    LET id == clientIP(req)
        answer == isRateLimited(rateLimitMap, id, serverNow)
        fresh == served.windowStart[id] < 0
                     \/ serverNow > served.windowStart[id] + RATE_LIMIT_WINDOW
    IN /\ IF req.method = "OPTIONS"
          THEN /\ rateLimitMap' = rateLimitMap
               /\ served' = [served EXCEPT !.identifier = id, !.method = req.method,
                                           !.limited = FALSE, !.at = serverNow]
          ELSE /\ rateLimitMap' = answer.map
               /\ served' =
                     IF answer.limited
                     THEN [served EXCEPT !.identifier = id, !.method = req.method,
                                         !.limited = TRUE, !.at = serverNow]
                     ELSE [served EXCEPT !.identifier = id, !.method = req.method,
                                         !.limited = FALSE, !.at = serverNow,
                                         !.windowStart[id] = IF fresh THEN serverNow ELSE @,
                                         !.admits[id] = IF fresh THEN 1 ELSE @ + 1]
       /\ UNCHANGED <<insideHook, scanning, serverNow>>

\* the edge function's clock advances
ServerTick(d) ==
    /\ serverNow + d <= MaxServerMs
    /\ serverNow' = serverNow + d
    /\ served' = [served EXCEPT !.method = "none", !.identifier = "none", !.limited = FALSE]
    /\ UNCHANGED <<insideHook, scanning, rateLimitMap>>

NextServe ==
    \/ \E req \in Requests : Serve(req)
    \/ \E d \in ServerSteps : ServerTick(d)

SpecServe == InitScreen /\ [][NextServe]_vars

\* the step just taken passed a request of identifier id through the rate-limit check
Checked(id) == served'.identifier = id /\ served'.method = "POST"

\* C39: for each client identifier at most 10 requests are admitted between the
\* creation of a window and its reset time 60 seconds later (the record counts exactly
\* the requests admitted since the window was created); a request answered 429
\* changes neither the count nor the reset time, and is answered so only at the limit
\* within the window; the first request after the reset time is always admitted and
\* starts a new window with count 1
C39_RateLimiter ==
    /\ [](\A id \in Identifiers :
            /\ served.admits[id] <= RATE_LIMIT_MAX
            /\ rateLimitMap[id].present
                 => /\ rateLimitMap[id].count = served.admits[id]
                    /\ rateLimitMap[id].resetTime = served.windowStart[id] + RATE_LIMIT_WINDOW
            /\ ~rateLimitMap[id].present => served.admits[id] = 0)
    /\ [][\A id \in Identifiers :
            Checked(id) =>
               /\ served'.limited
                    => /\ rateLimitMap' = rateLimitMap
                       /\ rateLimitMap[id].present
                       /\ rateLimitMap[id].count >= RATE_LIMIT_MAX
                       /\ serverNow <= rateLimitMap[id].resetTime
               /\ (rateLimitMap[id].present /\ serverNow > rateLimitMap[id].resetTime)
                    => /\ ~served'.limited
                       /\ rateLimitMap'[id] = Record(1, serverNow + RATE_LIMIT_WINDOW)
               /\ \A other \in Identifiers \ {id} : rateLimitMap'[other] = rateLimitMap[other]
         ]_vars

\* an identifier was answered 429 at the very end of a full window while another
\* identifier's window had already been renewed
C39_Witness ==
    /\ served.limited
    /\ served.identifier = "10.0.0.1"
    /\ served.at = rateLimitMap["10.0.0.1"].resetTime
    /\ rateLimitMap["10.0.0.1"].count = RATE_LIMIT_MAX
    /\ rateLimitMap["unknown"].present
    /\ rateLimitMap["unknown"].resetTime > RATE_LIMIT_WINDOW
    /\ rateLimitMap["unknown"].count = 1

====
